---- MODULE Spec2Model ----
(***************************************************************************)
(* RepoLogic retrieval core: EmbeddingStore (src/tools/embedder.py) and    *)
(* the Flask request handlers that drive it (src/app.py).                  *)
(*                                                                         *)
(* One repository (one repo_id) is modelled.  Its persisted state is the   *)
(* cloned checkout, the chunk store, and the three vector-index artifacts  *)
(* <repo_id>.faiss, <repo_id>_chunks.pkl and <repo_id>_info.pkl.  Two      *)
(* request slots run handlers and direct EmbeddingStore calls; every       *)
(* file-system access and every call of a remote collaborator is one step. *)
(***************************************************************************)
EXTENDS Integers, Sequences, FiniteSets, TLC

\* ------------------------------------------------------------------ bounds

\* Lines of the one source file "f" of the checked-out repository: 0..MaxLines.
MaxLines == 4
\* Largest k / additional_context_k a direct caller passes.
MaxK == 2
\* batch_size of embed_chunks (100 in the source, src/tools/embedder.py:59),
\* scaled down so that builds of two batches happen with three chunks.
BatchSize == 2
\* Requests the threaded specification admits.
MaxRequests == 6

\* ------------------------------------------------- program constants

\* k of the /ask handler's search_similar call.
AskK == 5
\* additional_context_k of the /explain handler's search_by_selection call.
ExplainContextK == 3
\* Config.CHUNK_SIZE and Config.CHUNK_OVERLAP (config.py is not under src/).
ChunkSize == 2
ChunkOverlap == 1

Procs == {"r1", "r2"}
SerialProcs == {"r1"}
Artifacts == {"faiss", "chunks", "info"}
RepoId == "repo"
FileF == "f"
FileG == "g"
Language == "python"

\* ------------------------------------------------------- sequences

RECURSIVE SumSeq(_)
SumSeq(s) == IF s = <<>> THEN 0 ELSE Head(s) + SumSeq(Tail(s))

Min(a, b) == IF a < b THEN a ELSE b

\* Python slice s[i : i + n] with a 0-based start i.
Slice(s, i, n) == SubSeq(s, i + 1, Min(i + n, Len(s)))

\* Python indexing s[idx] with a 0-based idx; a negative idx counts from the end.
PyIndex(s, idx) == IF idx >= 0 THEN s[idx + 1] ELSE s[Len(s) + idx + 1]

\* ------------------------------------------ Segmenter and Chunk Store

\* content of lines a..b of the file: line i carries the text i.
Lines(a, b) == [j \in 1..(b - a + 1) |-> a + j - 1]

\* One LineNumberChunk.
MkChunk(idx, a, b) ==
    [chunk_id |-> <<FileF, a, idx>>, file_path |-> FileF, start_line |-> a,
     end_line |-> b, content |-> Lines(a, b), language |-> Language]

\* FileChunker.chunk_file: windows of ChunkSize lines advanced by
\* ChunkSize - ChunkOverlap, the last window clipped to the last line.
RECURSIVE Windows(_, _, _)
Windows(n, a, idx) ==
    IF a > n THEN <<>>
    ELSE LET b == Min(a + ChunkSize - 1, n)
         IN  IF b = n THEN << MkChunk(idx, a, b) >>
             ELSE << MkChunk(idx, a, b) >>
                  \o Windows(n, a + (ChunkSize - ChunkOverlap), idx + 1)

chunk_file(n) == Windows(n, 1, 0)

\* ChunkStore.get_chunks_by_lines: the chunks of file_path whose line range
\* intersects [start_line, end_line], in stored (start_line) order; empty when
\* nothing is stored.
get_chunks_by_lines(store, file_path, start_line, end_line) ==
    IF store.st # "ok" THEN <<>>
    ELSE SelectSeq(store.data,
                   LAMBDA c : /\ c.file_path = file_path
                              /\ c.start_line <= end_line
                              /\ c.end_line >= start_line)

\* ------------------------------------------------ embedding collaborator

\* f"File: {chunk.file_path}\nLanguage: {chunk.language}\n\n{chunk.content}"
EnrichedText(chunk) ==
    [ctx |-> <<chunk.file_path, chunk.language>>, body |-> chunk.content]

\* The raw text of a query (a question, or a chunk's content).
PlainText(body) == [ctx |-> <<>>, body |-> body]

\* The remote embedding model: a deterministic map from text to a vector.
EmbedModel(text) == << Len(text.ctx) + SumSeq(text.body) >>

texts_to_embed(chunks) == [j \in 1..Len(chunks) |-> EnrichedText(chunks[j])]

embed_documents(batch) == [j \in 1..Len(batch) |-> EmbedModel(batch[j])]

\* A collaborator that breaks its contract: one vector short, no exception.
embed_documents_short(batch) == SubSeq(embed_documents(batch), 1, Len(batch) - 1)

embed_query(query) == EmbedModel(PlainText(query))

\* ------------------------------------------------------- FAISS IndexFlatL2

\* Distance reported for a missing neighbour (label -1).
FltMax == 10 ^ 6

RECURSIVE L2(_, _)
L2(u, v) ==
    IF u = <<>> THEN 0
    ELSE (Head(u) - Head(v)) * (Head(u) - Head(v)) + L2(Tail(u), Tail(v))

\* index.search(q, k): the k nearest stored vectors by ascending squared L2
\* distance (ties by insertion order), 0-based labels; padded with label -1
\* when fewer than k vectors are stored.
IndexSearch(index, q, k) ==
    LET n == Len(index)
        d == [j \in 1..n |-> L2(index[j], q)]
        Before(a, b) == d[a] < d[b] \/ (d[a] = d[b] /\ a < b)
        Rank(a) == Cardinality({b \in 1..n : Before(b, a)}) + 1
        Kth(r) == CHOOSE a \in 1..n : Rank(a) = r
    IN  [r \in 1..k |->
            IF r <= n THEN [dist |-> d[Kth(r)], idx |-> Kth(r) - 1]
            ELSE [dist |-> FltMax, idx |-> -1]]

\* ------------------------------------------------------------------ state

VARIABLES
    repoCache,   \* whether Config.REPO_CACHE_DIR / repo_id exists (the checkout)
    chunkStore,  \* the ChunkStore's persisted chunk list of the repository
    files,       \* the three artifacts under Config.VECTOR_DB_PATH
    pc,          \* where each request slot stands
    loc,         \* the locals of the call each request slot runs
    started      \* requests admitted so far (counted by SpecConcurrent only)

vars == <<repoCache, chunkStore, files, pc, loc, started>>

NoInfo == [total_chunks |-> 0, dimension |-> 0, repo_id |-> ""]

\* An artifact that was never written.
Absent(a) == [st |-> "none", data |-> IF a = "info" THEN NoInfo ELSE <<>>]

\* An artifact opened with 'wb' and not (yet) completely written.
Truncated(a) == [st |-> "partial", data |-> IF a = "info" THEN NoInfo ELSE <<>>]

NoFiles == [a \in Artifacts |-> Absent(a)]

NoResp == [status |-> 0, kind |-> "none", n |-> 0]

Resp(status, kind, n) == [status |-> status, kind |-> kind, n |-> n]

IdleLoc ==
    [caller |-> "none", chunks |-> <<>>, embeddings |-> <<>>, i |-> 0,
     stage |-> "none", pre |-> NoFiles, ci |-> "none",
     index |-> <<>>, loaded |-> <<>>, query |-> <<>>, k |-> 0,
     results |-> <<>>, failure |-> "none", ss |-> "none",
     sel |-> <<>>, selected |-> <<>>, extra |-> 0, context |-> <<>>,
     embedCalls |-> 0, indexReads |-> 0, resp |-> NoResp,
     stats |-> [st |-> "none", data |-> NoInfo]]

Init ==
    /\ repoCache = FALSE
    /\ chunkStore = [st |-> "none", data |-> <<>>]
    /\ files = NoFiles
    /\ pc = [p \in Procs |-> "idle"]
    /\ loc = [p \in Procs |-> IdleLoc]
    /\ started = 0

\* The request slot p moves to position where with the locals l.
Goto(p, where, l) ==
    /\ pc' = [pc EXCEPT ![p] = where]
    /\ loc' = [loc EXCEPT ![p] = l]

\* ---------------------------------------------------------------- inputs

LineCounts == 0..MaxLines
ChunkLists == {chunk_file(n) : n \in LineCounts}
Questions == {<<1>>, <<MaxLines + MaxLines>>}
Ks == 1..MaxK
Selections ==
    {<<FileF, a, b>> : a \in 1..MaxLines, b \in 1..MaxLines} \cup {<<FileG, 1, 1>>}

\* ------------------------------------------------------------ /ingest, /chunk

\* ingest_repo: RepoIngestor.ingest clones the repository into the cache.
IngestRepo(p) ==
    /\ pc[p] = "idle"
    /\ repoCache' = TRUE
    /\ Goto(p, "done", [IdleLoc EXCEPT !.caller = "ingest",
                                       !.resp = Resp(200, "ingested", 0)])
    /\ UNCHANGED <<chunkStore, files>>

\* chunk_repo: 400 when the repository was not ingested, else chunk the
\* checkout's file (of n lines, as os.walk finds it) and save_chunks, which
\* replaces the stored chunk list.
ChunkRepo(p) ==
    /\ pc[p] = "idle"
    /\ IF ~repoCache
       THEN /\ Goto(p, "done", [IdleLoc EXCEPT !.caller = "chunk",
                                    !.resp = Resp(400, "not_ingested", 0)])
            /\ UNCHANGED chunkStore
       ELSE \E n \in LineCounts :
              LET all_chunks == chunk_file(n)
              IN  /\ chunkStore' = [st |-> "ok", data |-> all_chunks]
                  /\ Goto(p, "done", [IdleLoc EXCEPT !.caller = "chunk",
                                          !.resp = Resp(200, "chunked", Len(all_chunks))])
    /\ UNCHANGED <<repoCache, files>>

\* ------------------------------------------------------------ create_index

\* embed_repo without the `if not success` test of lines 233-234: it answers
\* 200 whatever create_index returned.
CreateIndexReturns_SuccessIgnored(l, ok) ==
    [l EXCEPT !.ci = IF ok THEN "True" ELSE "False",
              !.resp = IF l.caller = "embed"
                       THEN Resp(200, "index_created", Len(l.chunks))
                       ELSE NoResp]

\* What create_index's caller does with its return value: embed_repo answers
\* 200 with total_chunks, or 500; a direct caller just gets the boolean.
CreateIndexReturns(l, ok) ==
    [l EXCEPT !.ci = IF ok THEN "True" ELSE "False",
              !.resp = IF l.caller = "embed"
                       THEN IF ok THEN Resp(200, "index_created", Len(l.chunks))
                                  ELSE Resp(500, "embed_failed", 0)
                       ELSE NoResp]

\* create_index, lines 87-89 and the entry of embed_chunks.
EnterCreateIndex(p, caller, chunks) ==
    LET l == [IdleLoc EXCEPT !.caller = caller, !.chunks = chunks, !.pre = files]
    IN  IF chunks = <<>>
        THEN Goto(p, "done", CreateIndexReturns(l, FALSE))
        ELSE Goto(p, "ci_embed", l)

\* embed_repo without the two checks of lines 221-226.
EmbedRepo_Unchecked(p) ==
    /\ pc[p] = "idle"
    /\ EnterCreateIndex(p, "embed", chunkStore.data)
    /\ UNCHANGED <<repoCache, chunkStore, files>>

\* embed_repo up to its call of create_index.
EmbedRepo(p) ==
    /\ pc[p] = "idle"
    /\ IF chunkStore.st # "ok"
       THEN Goto(p, "done", [IdleLoc EXCEPT !.caller = "embed",
                                 !.resp = Resp(400, "no_chunks_found", 0)])
       ELSE IF chunkStore.data = <<>>
       THEN Goto(p, "done", [IdleLoc EXCEPT !.caller = "embed",
                                 !.resp = Resp(400, "no_chunks_to_embed", 0)])
       ELSE EnterCreateIndex(p, "embed", chunkStore.data)
    /\ UNCHANGED <<repoCache, chunkStore, files>>

\* A direct call of EmbeddingStore.create_index(repo_id, chunks).
CreateIndexCall(p) ==
    /\ pc[p] = "idle"
    /\ \E chunks \in ChunkLists : EnterCreateIndex(p, "create_index", chunks)
    /\ UNCHANGED <<repoCache, chunkStore, files>>

\* create_index without the embeddings.size test of lines 95-97.
AfterBatch_NoSizeCheck(p, l) ==
    IF l.i < Len(l.chunks) THEN Goto(p, "ci_embed", l)
    ELSE Goto(p, "ci_open", [l EXCEPT !.stage = "faiss"])

\* embed_chunks after a batch: the loop goes on, or the array is complete and
\* create_index goes on to build and save the index (or returns False on an
\* empty array).
AfterBatch(p, l) ==
    IF l.i < Len(l.chunks) THEN Goto(p, "ci_embed", l)
    ELSE IF l.embeddings = <<>> THEN Goto(p, "done", CreateIndexReturns(l, FALSE))
    ELSE Goto(p, "ci_open", [l EXCEPT !.stage = "faiss"])

\* One pass of the batch loop: embed_documents answers with one vector per text.
EmbedBatch(p) ==
    /\ pc[p] = "ci_embed"
    /\ LET l == loc[p]
           batch == Slice(texts_to_embed(l.chunks), l.i, BatchSize)
       IN  AfterBatch(p, [l EXCEPT !.embeddings = @ \o embed_documents(batch),
                                   !.i = @ + BatchSize,
                                   !.embedCalls = @ + 1])
    /\ UNCHANGED <<repoCache, chunkStore, files>>

\* One pass of the batch loop: embed_documents answers one vector short.
EmbedBatchShort(p) ==
    /\ pc[p] = "ci_embed"
    /\ LET l == loc[p]
           batch == Slice(texts_to_embed(l.chunks), l.i, BatchSize)
       IN  AfterBatch(p, [l EXCEPT !.embeddings = @ \o embed_documents_short(batch),
                                   !.i = @ + BatchSize,
                                   !.embedCalls = @ + 1])
    /\ UNCHANGED <<repoCache, chunkStore, files>>

\* The build that catches a batch's exception and goes on with the next batch,
\* leaving the failed batch's vectors out.
EmbedBatchRaise_Skipped(p) ==
    /\ pc[p] = "ci_embed"
    /\ AfterBatch(p, [loc[p] EXCEPT !.i = @ + BatchSize,
                                    !.embedCalls = @ + 1,
                                    !.failure = "embed_batch"])
    /\ UNCHANGED <<repoCache, chunkStore, files>>

\* One pass of the batch loop: embed_documents raises; embed_chunks re-raises
\* and create_index's except clause returns False.
EmbedBatchRaise(p) ==
    /\ pc[p] = "ci_embed"
    /\ Goto(p, "done", CreateIndexReturns([loc[p] EXCEPT !.embedCalls = @ + 1,
                                                         !.failure = "embed_batch"], FALSE))
    /\ UNCHANGED <<repoCache, chunkStore, files>>

\* What create_index writes to each artifact.
ArtifactData(l, a) ==
    IF a = "faiss" THEN l.embeddings
    ELSE IF a = "chunks" THEN l.chunks
    ELSE [total_chunks |-> Len(l.chunks),
          dimension |-> Len(l.embeddings[1]),
          repo_id |-> RepoId]

NextStage(a) == IF a = "faiss" THEN "chunks" ELSE IF a = "chunks" THEN "info" ELSE "none"

\* faiss.write_index / open(path, 'wb'): the artifact is created or truncated.
WriteOpen(p) ==
    /\ pc[p] = "ci_open"
    /\ files' = [files EXCEPT ![loc[p].stage] = Truncated(loc[p].stage)]
    /\ Goto(p, "ci_dump", loc[p])
    /\ UNCHANGED <<repoCache, chunkStore>>

\* The artifact cannot be opened for writing: create_index returns False.
WriteOpenFail(p) ==
    /\ pc[p] = "ci_open"
    /\ Goto(p, "done", CreateIndexReturns([loc[p] EXCEPT !.failure = "write_open"], FALSE))
    /\ UNCHANGED <<repoCache, chunkStore, files>>

\* The artifact's content is written; after the third one create_index
\* returns True.
WriteDump(p) ==
    /\ pc[p] = "ci_dump"
    /\ LET a == loc[p].stage
       IN  /\ files' = [files EXCEPT ![a] = [st |-> "ok", data |-> ArtifactData(loc[p], a)]]
           /\ IF NextStage(a) = "none"
              THEN Goto(p, "done", CreateIndexReturns(loc[p], TRUE))
              ELSE Goto(p, "ci_open", [loc[p] EXCEPT !.stage = NextStage(a)])
    /\ UNCHANGED <<repoCache, chunkStore>>

\* Writing the content fails (disk full, ...): the artifact stays as the failed
\* write left it and create_index returns False.
WriteDumpFail(p) ==
    /\ pc[p] = "ci_dump"
    /\ Goto(p, "done", CreateIndexReturns([loc[p] EXCEPT !.failure = "write_dump"], FALSE))
    /\ UNCHANGED <<repoCache, chunkStore, files>>

\* The handler or call has returned: the request slot is free again.
Return(p) ==
    /\ pc[p] = "done"
    /\ Goto(p, "idle", IdleLoc)
    /\ UNCHANGED <<repoCache, chunkStore, files>>

\* --------------------------------------------------------------- has_index

\* has_index: index_path.exists() and chunks_path.exists().
has_index_of(fs) == fs["faiss"].st # "none" /\ fs["chunks"].st # "none"

has_index == has_index_of(files)

\* ------------------------------------------------------------ search_similar

\* search_similar, lines 169-173: pair every hit whose label passes the guard
\* idx < len(chunks) with chunks[idx].  pos records the label the pair came from.
RECURSIVE CollectResults(_, _)
CollectResults(hits, chunks) ==
    IF hits = <<>> THEN <<>>
    ELSE LET h == Head(hits)
         IN  (IF h.idx < Len(chunks)
              THEN << [chunk |-> PyIndex(chunks, h.idx), dist |-> h.dist, pos |-> h.idx] >>
              ELSE <<>>)
             \o CollectResults(Tail(hits), chunks)

\* search_similar, lines 166-176, on the loaded index and chunk list.
SearchLoaded(index, chunks, query, k) ==
    CollectResults(IndexSearch(index, embed_query(query), Min(k, Len(chunks))), chunks)

\* The selection that keeps the first additional_context_k results unfiltered.
FilterContext_Unfiltered(similar_results, selected_chunks, additional_context_k) ==
    [j \in 1..Min(additional_context_k, Len(similar_results)) |->
        similar_results[j].chunk]

\* search_by_selection without the break of line 227: every unselected result.
RECURSIVE FilterContext_NoBreak(_, _, _)
FilterContext_NoBreak(similar_results, selected_chunks, additional_context_k) ==
    LET selected_ids == {selected_chunks[j].chunk_id : j \in 1..Len(selected_chunks)}
    IN  IF similar_results = <<>> THEN <<>>
        ELSE IF Head(similar_results).chunk.chunk_id \in selected_ids
        THEN FilterContext_NoBreak(Tail(similar_results), selected_chunks,
                                   additional_context_k)
        ELSE << Head(similar_results).chunk >>
             \o FilterContext_NoBreak(Tail(similar_results), selected_chunks,
                                      additional_context_k)

\* search_by_selection, lines 222-228: the first additional_context_k results
\* whose chunk_id is not selected.
RECURSIVE FilterContext(_, _, _)
FilterContext(similar_results, selected_chunks, additional_context_k) ==
    LET selected_ids == {selected_chunks[j].chunk_id : j \in 1..Len(selected_chunks)}
    IN  IF similar_results = <<>> THEN <<>>
        ELSE IF Head(similar_results).chunk.chunk_id \in selected_ids
        THEN FilterContext(Tail(similar_results), selected_chunks, additional_context_k)
        ELSE IF additional_context_k <= 1
        THEN << Head(similar_results).chunk >>
        ELSE << Head(similar_results).chunk >>
             \o FilterContext(Tail(similar_results), selected_chunks,
                              additional_context_k - 1)

\* search_similar returns results (failure says how it ended: "none" for the
\* normal return, else which early or except return it took); what its caller
\* does next.
SearchReturns(p, l0, results, failure) ==
    LET l == [l0 EXCEPT !.results = results, !.failure = failure, !.ss = "returned"]
    IN  IF l.caller = "search_similar" THEN Goto(p, "done", l)
        ELSE IF l.caller = "ask"
        THEN IF results = <<>>
             THEN Goto(p, "done", [l EXCEPT !.resp = Resp(200, "zero_results", 0)])
             ELSE Goto(p, "llm", l)
        ELSE LET l2 == [l EXCEPT !.context =
                            FilterContext(results, l.selected, l.extra)]
             IN  IF l.caller = "explain" THEN Goto(p, "llm", l2)
                 ELSE Goto(p, "done", l2)

\* The handler that calls search_similar without looking for the index first.
AskQuestion_Unchecked(p) ==
    /\ pc[p] = "idle"
    /\ \E q \in Questions :
          Goto(p, "ss_entry", [IdleLoc EXCEPT !.caller = "ask", !.query = q,
                                   !.k = AskK])
    /\ UNCHANGED <<repoCache, chunkStore, files>>

\* ask_question up to its call of search_similar: 400 without an index.
AskQuestion(p) ==
    /\ pc[p] = "idle"
    /\ \E q \in Questions :
          IF ~has_index
          THEN Goto(p, "done", [IdleLoc EXCEPT !.caller = "ask", !.query = q,
                                    !.resp = Resp(400, "not_indexed", 0)])
          ELSE Goto(p, "ss_entry", [IdleLoc EXCEPT !.caller = "ask", !.query = q,
                                        !.k = AskK])
    /\ UNCHANGED <<repoCache, chunkStore, files>>

\* A direct call of EmbeddingStore.search_similar(repo_id, query, k).
SearchSimilarCall(p) ==
    /\ pc[p] = "idle"
    /\ \E q \in Questions, k \in Ks :
          Goto(p, "ss_entry", [IdleLoc EXCEPT !.caller = "search_similar",
                                   !.query = q, !.k = k])
    /\ UNCHANGED <<repoCache, chunkStore, files>>

\* search_similar, lines 148-150.
SearchHasIndex(p) ==
    /\ pc[p] = "ss_entry"
    /\ IF ~has_index
       THEN SearchReturns(p, loc[p], <<>>, "no_index")
       ELSE Goto(p, "ss_read_index", loc[p])
    /\ UNCHANGED <<repoCache, chunkStore, files>>

\* faiss.read_index: a truncated file raises, and search_similar returns [].
SearchReadIndex(p) ==
    /\ pc[p] = "ss_read_index"
    /\ IF files["faiss"].st # "ok"
       THEN SearchReturns(p, [loc[p] EXCEPT !.indexReads = @ + 1], <<>>, "read_index")
       ELSE Goto(p, "ss_read_chunks", [loc[p] EXCEPT !.index = files["faiss"].data,
                                                     !.indexReads = @ + 1])
    /\ UNCHANGED <<repoCache, chunkStore, files>>

\* pickle.load of the chunk list: a truncated file raises.
SearchReadChunks(p) ==
    /\ pc[p] = "ss_read_chunks"
    /\ IF files["chunks"].st # "ok"
       THEN SearchReturns(p, loc[p], <<>>, "read_chunks")
       ELSE Goto(p, "ss_embed", [loc[p] EXCEPT !.loaded = files["chunks"].data])
    /\ UNCHANGED <<repoCache, chunkStore, files>>

\* embed_query answers; index.search and the collection of the results.
SearchEmbedQuery(p) ==
    /\ pc[p] = "ss_embed"
    /\ LET l == [loc[p] EXCEPT !.embedCalls = @ + 1]
       IN  SearchReturns(p, l, SearchLoaded(l.index, l.loaded, l.query, l.k), "none")
    /\ UNCHANGED <<repoCache, chunkStore, files>>

\* embed_query raises: the except clause returns [].
SearchEmbedQueryRaise(p) ==
    /\ pc[p] = "ss_embed"
    /\ SearchReturns(p, [loc[p] EXCEPT !.embedCalls = @ + 1], <<>>, "embed_query")
    /\ UNCHANGED <<repoCache, chunkStore, files>>

\* ------------------------------------------------------- search_by_selection

\* search_by_selection, lines 204-209: the exact overlaps from the chunk store.
EnterSelection(p, caller, sel, additional_context_k) ==
    Goto(p, "sel_guard",
         [IdleLoc EXCEPT !.caller = caller, !.sel = sel,
                         !.selected = get_chunks_by_lines(chunkStore, sel[1], sel[2], sel[3]),
                         !.extra = additional_context_k])

\* explain_selection up to its call of search_by_selection.
ExplainSelection(p) ==
    /\ pc[p] = "idle"
    /\ \E sel \in Selections : EnterSelection(p, "explain", sel, ExplainContextK)
    /\ UNCHANGED <<repoCache, chunkStore, files>>

\* A direct call of EmbeddingStore.search_by_selection.
SearchBySelectionCall(p) ==
    /\ pc[p] = "idle"
    /\ \E sel \in Selections, k \in Ks : EnterSelection(p, "search_by_selection", sel, k)
    /\ UNCHANGED <<repoCache, chunkStore, files>>

\* The guard that asks for an anchor chunk only.
SelectionWantsContext_AnchorOnly(l, indexed) == l.selected # <<>>

\* search_by_selection, line 215.
SelectionWantsContext(l, indexed) == l.selected # <<>> /\ indexed

\* search_by_selection, lines 214-220: search for context only with an anchor
\* chunk and an index; otherwise context_chunks stays [].
SelectionGuard(p) ==
    /\ pc[p] = "sel_guard"
    /\ LET l == loc[p]
       IN  IF SelectionWantsContext(l, has_index)
           THEN Goto(p, "ss_entry", [l EXCEPT !.query = l.selected[1].content,
                                             !.k = l.extra + Len(l.selected)])
           ELSE IF l.caller = "explain" THEN Goto(p, "llm", l)
           ELSE Goto(p, "done", l)
    /\ UNCHANGED <<repoCache, chunkStore, files>>

\* ---------------------------------------------------------------- llm.invoke

\* The text-generation call of /explain and /ask answers: 200.
LlmInvoke(p) ==
    /\ pc[p] = "llm"
    /\ LET l == loc[p]
       IN  Goto(p, "done",
                [l EXCEPT !.resp =
                    IF l.caller = "ask" THEN Resp(200, "answer", Len(l.results))
                    ELSE Resp(200, "explanation", Len(l.selected) + Len(l.context))])
    /\ UNCHANGED <<repoCache, chunkStore, files>>

\* The text-generation call raises: the handler's except clause answers 500.
LlmInvokeRaise(p) ==
    /\ pc[p] = "llm"
    /\ Goto(p, "done", [loc[p] EXCEPT !.resp = Resp(500, "llm_failed", 0)])
    /\ UNCHANGED <<repoCache, chunkStore, files>>

\* ------------------------------------------------------------ get_index_stats

\* A direct call of EmbeddingStore.get_index_stats(repo_id): None without an
\* index or without an info file, else what pickle.load makes of the info
\* file, which raises on a file that was opened for writing and never dumped.
GetIndexStatsCall(p) ==
    /\ pc[p] = "idle"
    /\ LET stats ==
               IF ~has_index THEN [st |-> "None", data |-> NoInfo]
               ELSE IF files["info"].st = "none" THEN [st |-> "None", data |-> NoInfo]
               ELSE IF files["info"].st = "ok"
               THEN [st |-> "record", data |-> files["info"].data]
               ELSE [st |-> "raised", data |-> NoInfo]
       IN  Goto(p, "done", [IdleLoc EXCEPT !.caller = "get_index_stats",
                                !.stats = stats])
    /\ UNCHANGED <<repoCache, chunkStore, files>>

\* ------------------------------------------------------------ specifications

\* Requests are served one at a time, by one request slot.
Next ==
    \E p \in SerialProcs :
        \/ IngestRepo(p) /\ UNCHANGED started
        \/ ChunkRepo(p) /\ UNCHANGED started
        \/ EmbedRepo(p) /\ UNCHANGED started
        \/ CreateIndexCall(p) /\ UNCHANGED started
        \/ EmbedBatch(p) /\ UNCHANGED started
        \/ EmbedBatchShort(p) /\ UNCHANGED started
        \/ EmbedBatchRaise(p) /\ UNCHANGED started
        \/ WriteOpen(p) /\ UNCHANGED started
        \/ WriteOpenFail(p) /\ UNCHANGED started
        \/ WriteDump(p) /\ UNCHANGED started
        \/ WriteDumpFail(p) /\ UNCHANGED started
        \/ AskQuestion(p) /\ UNCHANGED started
        \/ SearchSimilarCall(p) /\ UNCHANGED started
        \/ SearchHasIndex(p) /\ UNCHANGED started
        \/ SearchReadIndex(p) /\ UNCHANGED started
        \/ SearchReadChunks(p) /\ UNCHANGED started
        \/ SearchEmbedQuery(p) /\ UNCHANGED started
        \/ SearchEmbedQueryRaise(p) /\ UNCHANGED started
        \/ ExplainSelection(p) /\ UNCHANGED started
        \/ SearchBySelectionCall(p) /\ UNCHANGED started
        \/ SelectionGuard(p) /\ UNCHANGED started
        \/ LlmInvoke(p) /\ UNCHANGED started
        \/ LlmInvokeRaise(p) /\ UNCHANGED started
        \/ GetIndexStatsCall(p) /\ UNCHANGED started
        \/ Return(p) /\ UNCHANGED started

Spec == Init /\ [][Next]_vars

\* A request is admitted while fewer than MaxRequests were.
Admit == started < MaxRequests /\ started' = started + 1

\* The handlers of a threaded server: two requests in flight, every step of one
\* interleaved with the steps of the other, for the first MaxRequests requests.
\* No collaborator and no write fails.
NextConcurrent ==
    \E p \in Procs :
        \/ IngestRepo(p) /\ Admit
        \/ ChunkRepo(p) /\ Admit
        \/ EmbedRepo(p) /\ Admit
        \/ AskQuestion(p) /\ Admit
        \/ EmbedBatch(p) /\ UNCHANGED started
        \/ WriteOpen(p) /\ UNCHANGED started
        \/ WriteDump(p) /\ UNCHANGED started
        \/ SearchHasIndex(p) /\ UNCHANGED started
        \/ SearchReadIndex(p) /\ UNCHANGED started
        \/ SearchReadChunks(p) /\ UNCHANGED started
        \/ SearchEmbedQuery(p) /\ UNCHANGED started
        \/ LlmInvoke(p) /\ UNCHANGED started
        \/ Return(p) /\ UNCHANGED started

SpecConcurrent == Init /\ [][NextConcurrent]_vars

\* The five request handlers alone, one request at a time: what a client of
\* the server can reach. Collaborators and writes may fail.
NextHandlers ==
    \E p \in SerialProcs :
        \/ IngestRepo(p) /\ UNCHANGED started
        \/ ChunkRepo(p) /\ UNCHANGED started
        \/ EmbedRepo(p) /\ UNCHANGED started
        \/ EmbedBatch(p) /\ UNCHANGED started
        \/ EmbedBatchShort(p) /\ UNCHANGED started
        \/ EmbedBatchRaise(p) /\ UNCHANGED started
        \/ WriteOpen(p) /\ UNCHANGED started
        \/ WriteOpenFail(p) /\ UNCHANGED started
        \/ WriteDump(p) /\ UNCHANGED started
        \/ WriteDumpFail(p) /\ UNCHANGED started
        \/ AskQuestion(p) /\ UNCHANGED started
        \/ SearchHasIndex(p) /\ UNCHANGED started
        \/ SearchReadIndex(p) /\ UNCHANGED started
        \/ SearchReadChunks(p) /\ UNCHANGED started
        \/ SearchEmbedQuery(p) /\ UNCHANGED started
        \/ SearchEmbedQueryRaise(p) /\ UNCHANGED started
        \/ ExplainSelection(p) /\ UNCHANGED started
        \/ SelectionGuard(p) /\ UNCHANGED started
        \/ LlmInvoke(p) /\ UNCHANGED started
        \/ LlmInvokeRaise(p) /\ UNCHANGED started
        \/ Return(p) /\ UNCHANGED started

SpecHandlers == Init /\ [][NextHandlers]_vars

\* ============================================================== properties

\* The request slots running create_index (from /embed or directly) that have
\* returned from it.
Built(p) == pc[p] = "done" /\ loc[p].ci # "none"

\* The persisted vectors and chunks agree position by position.
Aligned(fs) ==
    /\ fs["faiss"].st = "ok"
    /\ fs["chunks"].st = "ok"
    /\ Len(fs["faiss"].data) = Len(fs["chunks"].data)
    /\ \A j \in 1..Len(fs["chunks"].data) :
          fs["faiss"].data[j] = EmbedModel(EnrichedText(fs["chunks"].data[j]))

\* The three artifacts are complete and come from one build.
Complete(fs) ==
    /\ Aligned(fs)
    /\ fs["info"].st = "ok"
    /\ fs["info"].data.total_chunks = Len(fs["chunks"].data)

\* C1: a create_index call in which an embedding batch raised returns False
\* and leaves the three artifacts, hence has_index and the index that queries
\* read, exactly as they were when the call began.
C1_BatchFailureAborts ==
    \A p \in Procs :
        (Built(p) /\ loc[p].failure = "embed_batch") =>
            /\ loc[p].ci = "False"
            /\ files = loc[p].pre
            /\ has_index_of(files) = has_index_of(loc[p].pre)

\* C1's case: the second batch of a rebuild raised after the first one was
\* embedded, over a complete index built earlier.
C1_Witness ==
    \E p \in Procs :
        /\ Built(p)
        /\ loc[p].failure = "embed_batch"
        /\ loc[p].i > 0
        /\ Complete(loc[p].pre)
        /\ loc[p].chunks # loc[p].pre["chunks"].data

\* A returned search result pairs a distance with the chunk stored at the
\* position of the vector that produced the distance.
PairedWithItsVector(l, r) ==
    /\ r.pos >= 0
    /\ r.pos < Len(l.index)
    /\ r.pos < Len(l.loaded)
    /\ r.chunk = l.loaded[r.pos + 1]
    /\ r.dist = L2(l.index[r.pos + 1], embed_query(l.query))
    /\ l.index[r.pos + 1] = EmbedModel(EnrichedText(r.chunk))

\* C2: between calls, an existing index is positionally aligned (as many
\* vectors as chunks, vector i the embedding of chunk i's text), and every
\* result of search_similar pairs a distance with the chunk of its vector.
C2_AlignedAfterBuilds ==
    /\ (\A p \in Procs : pc[p] \in {"idle", "done"}) /\ has_index => Aligned(files)
    /\ \A p \in Procs :
          loc[p].ss = "returned" =>
              \A j \in 1..Len(loc[p].results) :
                  PairedWithItsVector(loc[p], loc[p].results[j])

\* The request slots that have returned from search_by_selection.
Selected(p) ==
    /\ loc[p].caller \in {"explain", "search_by_selection"}
    /\ pc[p] \in {"llm", "done"}

ChunkIds(chunks) == {chunks[j].chunk_id : j \in 1..Len(chunks)}

\* C3: no chunk of context_chunks has the chunk_id of a chunk of
\* selected_chunks.
C3_ContextDisjointFromSelected ==
    \A p \in Procs :
        Selected(p) => ChunkIds(loc[p].context) \cap ChunkIds(loc[p].selected) = {}

\* C3's case: the search returned a selected chunk among chunks that were kept.
C3_Witness ==
    \E p \in Procs :
        /\ Selected(p)
        /\ loc[p].context # <<>>
        /\ \E j \in 1..Len(loc[p].results) :
              loc[p].results[j].chunk.chunk_id \in ChunkIds(loc[p].selected)

\* C4: whenever create_index returns False, the three artifacts are what they
\* were when the call began.
C4_FailedBuildChangesNothing ==
    \A p \in Procs :
        (Built(p) /\ loc[p].ci = "False") => files = loc[p].pre

\* C5: a search_similar that runs while the index is rebuilt loads as many
\* vectors as chunks, vector i being the embedding of chunk i.
C5_ReaderLoadsOneBuild ==
    \A p \in Procs :
        pc[p] = "ss_embed" =>
            /\ Len(loc[p].index) = Len(loc[p].loaded)
            /\ \A j \in 1..Len(loc[p].loaded) :
                  loc[p].index[j] = EmbedModel(EnrichedText(loc[p].loaded[j]))

\* C6: between calls, has_index is true only if the three artifacts are
\* completely written and the header's count is the chunk list's length.
C6_HasIndexOnlyIfComplete ==
    ((\A p \in Procs : pc[p] = "idle") /\ has_index) =>
        /\ \A a \in Artifacts : files[a].st = "ok"
        /\ files["info"].data.total_chunks = Len(files["chunks"].data)

\* C7: a build whose embedding calls all answered, with fewer vectors than
\* chunks, and in which no write failed, returns False and persists nothing.
C7_CountMismatchFailsBuild ==
    \A p \in Procs :
        (Built(p) /\ loc[p].failure = "none"
                  /\ Len(loc[p].embeddings) # Len(loc[p].chunks)) =>
            /\ loc[p].ci = "False"
            /\ files = loc[p].pre

QueryFailures == {"read_index", "read_chunks", "embed_query"}

\* C9: a query in which loading an artifact or embedding the query failed
\* ends with an error: search_similar does not return, and /ask does not give
\* the 200 zero-results answer.
C9_QueryFailureSurfaces ==
    \A p \in Procs :
        (pc[p] = "done" /\ loc[p].failure \in QueryFailures) =>
            /\ loc[p].ss = "raised"
            /\ loc[p].resp.kind # "zero_results"

\* The exact overlaps of the selection that request slot p asked about.
Overlaps(p) ==
    get_chunks_by_lines(chunkStore, loc[p].sel[1], loc[p].sel[2], loc[p].sel[3])

\* C10: when the selection overlaps no chunk or there is no index,
\* search_by_selection returns the exact overlaps with context_chunks = [],
\* having called neither search_similar, nor the embedding model, nor read
\* the index.
C10_SelectionDegrades ==
    \A p \in Procs :
        (Selected(p) /\ (Overlaps(p) = <<>> \/ ~has_index)) =>
            /\ loc[p].selected = Overlaps(p)
            /\ loc[p].context = <<>>
            /\ loc[p].ss = "none"
            /\ loc[p].embedCalls = 0
            /\ loc[p].indexReads = 0

\* C10's case: the selection overlaps chunks of a repository without an index.
C10_Witness ==
    \E p \in Procs :
        /\ Selected(p)
        /\ pc[p] = "done"
        /\ loc[p].selected # <<>>
        /\ ~has_index

\* The request slots whose search_similar call ran its query to the end: the
\* index existed, both files loaded and the question was embedded.
Searched(p) == loc[p].ss = "returned" /\ loc[p].failure = "none"

\* The distances of a result list never decrease.
Ascending(results) ==
    \A j \in 1..(Len(results) - 1) : results[j].dist <= results[j + 1].dist

\* C11: a search_similar call that ran its query on an existing index holding
\* n chunks returns exactly min(k, n) results, for every k >= 1 (a k above n
\* is clamped, no error), in ascending order of distance.
C11_ReturnsMinKN ==
    \A p \in Procs :
        Searched(p) =>
            /\ Len(loc[p].results) = Min(loc[p].k, Len(loc[p].loaded))
            /\ Ascending(loc[p].results)

\* The request slots whose search_by_selection call searched for context and
\* has returned.
Contexted(p) == Selected(p) /\ loc[p].ss = "returned"

\* The results of search_similar whose chunk is not selected, in search order.
Survivors(results, selected) ==
    LET unselected(r) == r.chunk.chunk_id \notin ChunkIds(selected)
    IN  SelectSeq(results, unselected)

Quiescent == \A p \in Procs : pc[p] = "idle"

\* C13: between requests, a repository whose index is complete (so has_index
\* is true) is Indexed: the chunk list persisted with the vector index is the
\* chunk list of the chunk store, so a later /chunk never leaves an index built
\* from the older chunk list in place.
C13_IndexedMeansSameChunks ==
    (Quiescent /\ Complete(files)) =>
        /\ chunkStore.st = "ok"
        /\ files["chunks"].data = chunkStore.data

\* C14: readiness only moves forward. In every step taken while has_index is
\* true, has_index stays true, only a running build writes an artifact, and a
\* build that returns False (a failed rebuild) over a complete index leaves the
\* artifacts, hence what the index contains, as they were when it began.
C14_ReadinessOnlyForward ==
    [][has_index =>
          /\ has_index'
          /\ (files' # files => \E p \in Procs : pc[p] \in {"ci_open", "ci_dump"})
          /\ \A p \in Procs :
                (/\ pc[p] # "done"
                 /\ pc'[p] = "done"
                 /\ loc'[p].ci = "False"
                 /\ Complete(loc'[p].pre)) => files' = loc'[p].pre]_vars

\* No create_index call is between its first embedding batch and its return.
NoBuildRunning == \A p \in Procs : pc[p] \notin {"ci_embed", "ci_open", "ci_dump"}

\* C15: builds for one repo_id do not interleave. Once the builds of concurrent
\* /embed requests are over, the three persisted artifacts come from one and
\* the same build: as many vectors as chunks, each vector the embedding of its
\* chunk, and the recorded count that of the chunk list.
C15_BuildsDoNotInterleave ==
    (/\ NoBuildRunning
     /\ \A a \in Artifacts : files[a].st = "ok") => Complete(files)

\* The chunk store holds no chunk list, or an empty one.
NoPersistedChunks == chunkStore.st # "ok" \/ chunkStore.data = <<>>

\* C16: the handlers enforce the readiness order. An /embed request that finds
\* no persisted chunks answers 400 at once and writes no artifact; a /chunk
\* request for a repository that is not ingested answers 400 and saves no
\* chunks; and a build started by /embed works on the chunk list persisted in
\* the chunk store, which is not empty.
C16_ReadinessOrderEnforced ==
    [][\A p \in Procs :
          /\ (pc[p] = "idle" /\ loc'[p].caller = "embed" /\ NoPersistedChunks) =>
                /\ pc'[p] = "done"
                /\ loc'[p].resp.status = 400
                /\ loc'[p].ci = "none"
                /\ files' = files
          /\ (pc[p] = "idle" /\ loc'[p].caller = "chunk" /\ ~repoCache) =>
                /\ pc'[p] = "done"
                /\ loc'[p].resp.status = 400
                /\ chunkStore' = chunkStore
          /\ (loc'[p].caller = "embed" /\ pc'[p] \in {"ci_embed", "ci_open", "ci_dump"}) =>
                /\ loc'[p].chunks # <<>>
                /\ chunkStore'.st = "ok"
                /\ loc'[p].chunks = chunkStore'.data]_vars

\* C16's case: over an existing index, /embed found an empty persisted chunk
\* list and answered 400.
C16_Witness ==
    \E p \in Procs :
        /\ pc[p] = "done"
        /\ loc[p].caller = "embed"
        /\ loc[p].resp.status = 400
        /\ chunkStore.st = "ok"
        /\ chunkStore.data = <<>>
        /\ Complete(files)

\* The dimension of a stored vector set.
Dimension(vectors) == IF vectors = <<>> THEN 0 ELSE Len(vectors[1])

\* C17: get_index_stats returns None exactly when no index exists; whenever
\* has_index is true it returns a record whose total_chunks is the number of
\* chunks in the persisted chunk list and whose dimension is that of the
\* persisted vectors.
C17_StatsMatchTheIndex ==
    \A p \in Procs :
        (pc[p] = "done" /\ loc[p].caller = "get_index_stats") =>
            /\ (loc[p].stats.st = "None") = ~has_index
            /\ has_index =>
                  /\ loc[p].stats.st = "record"
                  /\ files["chunks"].st = "ok"
                  /\ files["faiss"].st = "ok"
                  /\ loc[p].stats.data.total_chunks = Len(files["chunks"].data)
                  /\ loc[p].stats.data.dimension = Dimension(files["faiss"].data)

\* C18: search_similar never maps an invalid position to a chunk. Every result
\* comes from a position idx with 0 <= idx < number of stored vectors; the -1
\* that the index returns for a missing neighbour is dropped and never yields
\* chunks[-1].
C18_NoInvalidPosition ==
    \A p \in Procs :
        loc[p].ss = "returned" =>
            \A j \in 1..Len(loc[p].results) :
                /\ 0 <= loc[p].results[j].pos
                /\ loc[p].results[j].pos < Len(loc[p].index)

\* The chunks of a list have pairwise distinct chunk_ids.
DistinctIds(chunks) == Cardinality(ChunkIds(chunks)) = Len(chunks)

\* C19: asking for additional_context_k + len(selected_chunks) neighbours is
\* enough. When the query of search_by_selection succeeds on an index whose
\* chunks have pairwise distinct chunk_ids: if the index holds at least
\* additional_context_k + len(selected_chunks) chunks, exactly
\* additional_context_k context chunks are returned; if it holds fewer, every
\* indexed chunk whose chunk_id is not selected is returned.
C19_EnoughNeighbours ==
    \A p \in Procs :
        (Contexted(p) /\ loc[p].failure = "none" /\ DistinctIds(loc[p].loaded)) =>
            IF Len(loc[p].loaded) >= loc[p].extra + Len(loc[p].selected)
            THEN Len(loc[p].context) = loc[p].extra
            ELSE ChunkIds(loc[p].context)
                     = ChunkIds(loc[p].loaded) \ ChunkIds(loc[p].selected)

\* C20: no persisted index is ever empty. A create_index call that was given
\* an empty chunk list, or that got an empty embedding array, returns False and
\* has written no artifact; and in every state each artifact that was written
\* to the end holds at least one vector, at least one chunk, and a count and a
\* dimension of at least one.
C20_NoEmptyIndex ==
    /\ \A p \in Procs :
          (Built(p) /\ (loc[p].chunks = <<>> \/ loc[p].embeddings = <<>>)) =>
              /\ loc[p].ci = "False"
              /\ files = loc[p].pre
    /\ files["faiss"].st = "ok" => files["faiss"].data # <<>>
    /\ files["chunks"].st = "ok" => files["chunks"].data # <<>>
    /\ files["info"].st = "ok" =>
          /\ files["info"].data.total_chunks >= 1
          /\ files["info"].data.dimension >= 1

\* C20's case: over a complete index, the embedding model answered a rebuild's
\* texts with no vector at all, and create_index returned.
C20_Witness ==
    \E p \in Procs :
        /\ Built(p)
        /\ loc[p].chunks # <<>>
        /\ loc[p].embeddings = <<>>
        /\ loc[p].failure = "none"
        /\ Complete(files)

\* The request slots whose /embed request has answered 200, index_created.
EmbedSucceeded(p) ==
    /\ pc[p] = "done"
    /\ loc[p].caller = "embed"
    /\ loc[p].resp.status = 200

\* C21: /embed reports success only for a complete build. Right after a 200
\* response, with requests served one at a time, create_index has returned
\* True, each of the three artifacts is written to the end with what this
\* build made, has_index is true, and the stored chunk list has as many chunks
\* as the total_chunks of the response.
C21_SuccessMeansCompleteBuild ==
    \A p \in Procs :
        EmbedSucceeded(p) =>
            /\ loc[p].ci = "True"
            /\ has_index
            /\ \A a \in Artifacts :
                  /\ files[a].st = "ok"
                  /\ files[a].data = ArtifactData(loc[p], a)
            /\ Len(files["chunks"].data) = loc[p].resp.n
            /\ files["info"].data.total_chunks = loc[p].resp.n

\* C21's case: /embed answered 200 for a rebuild over a complete index of
\* another chunk count.
C21_Witness ==
    \E p \in Procs :
        /\ EmbedSucceeded(p)
        /\ Complete(loc[p].pre)
        /\ Len(loc[p].pre["chunks"].data) # loc[p].resp.n
====
